---- MODULE Spec2Model ----
(***************************************************************************)
(* The doctest discovery plugin of nose (nose/plugins/doctests.py): the    *)
(* eligibility checks, the three discovery paths, the case identity and    *)
(* address, and the patched debugger hook.                                 *)
(*                                                                         *)
(* Python strings are sequences of one-character strings, so that          *)
(* endswith, startswith, split and join are computed as Python computes    *)
(* them.  None, for a string or a list, is the empty sequence: the code    *)
(* only tests those values for truth (or "is not None" on values that are  *)
(* never the empty string).                                                *)
(***************************************************************************)
EXTENDS Naturals, Sequences, FiniteSets

VARIABLES
    conf,          \* the plugin's configuration (Doctest.configure, self.conf)
    suiteClass,    \* Doctest.suiteClass
    sys_path,      \* sys.path
    last,          \* the last call the host made, with what it gave back
    last_id,       \* the case and result of the last id() call
    pdb,           \* the NoseOutputRedirectingPdb instances
    sys_settrace,  \* who holds sys.settrace: "coverage", "pdb" or "none"
    calls          \* the set_trace and set_continue calls made so far

vars == <<conf, suiteClass, sys_path, last, last_id, pdb, sys_settrace, calls>>

None == <<>>

\* an exception that reaches the caller
Raise(exc) == <<"raise", exc>>

-----------------------------------------------------------------------------
(* Python string primitives *)

startswith(s, p) ==
    /\ Len(p) <= Len(s)
    /\ SubSeq(s, 1, Len(p)) = p

endswith(s, p) ==
    /\ Len(p) <= Len(s)
    /\ SubSeq(s, Len(s) - Len(p) + 1, Len(s)) = p

\* re.search with a literal pattern: the pattern occurs somewhere in s
search(p, s) ==
    \E i \in 1..(Len(s) + 1) :
        /\ i + Len(p) - 1 <= Len(s)
        /\ SubSeq(s, i, i + Len(p) - 1) = p

\* nose.util.anyp(predicate, list), here with predicate = s.endswith
anyp_endswith(s, list) ==
    \E i \in 1..Len(list) : endswith(s, list[i])

\* the index of the last occurrence of character c in s, 0 when absent
rfind(s, c) ==
    IF \E i \in 1..Len(s) : s[i] = c
    THEN CHOOSE i \in 1..Len(s) : s[i] = c /\ \A j \in (i + 1)..Len(s) : s[j] # c
    ELSE 0

\* os.path.basename and os.path.dirname (posix)
basename(path) == SubSeq(path, rfind(path, "/") + 1, Len(path))

dirname(path) ==
    IF rfind(path, "/") <= 1 THEN SubSeq(path, 1, rfind(path, "/"))
    ELSE SubSeq(path, 1, rfind(path, "/") - 1)

\* os.path.splitext of a base name: a leading dot starts no extension
splitext(name) ==
    IF rfind(name, ".") <= 1 THEN <<name, <<>>>>
    ELSE <<SubSeq(name, 1, rfind(name, ".") - 1),
           SubSeq(name, rfind(name, "."), Len(name))>>

\* name.split('.')
RECURSIVE split(_)
split(s) ==
    IF rfind(s, ".") = 0 THEN <<s>>
    ELSE Append(split(SubSeq(s, 1, rfind(s, ".") - 1)),
                SubSeq(s, rfind(s, ".") + 1, Len(s)))

\* '.'.join(parts)
RECURSIVE join(_)
join(parts) ==
    IF Len(parts) = 0 THEN <<>>
    ELSE IF Len(parts) = 1 THEN parts[1]
    ELSE join(SubSeq(parts, 1, Len(parts) - 1)) \o <<".">> \o parts[Len(parts)]

-----------------------------------------------------------------------------
(* Strings of the modelled world *)

INIT_PY == <<"_", "_", "i", "n", "i", "t", "_", "_", ".", "p", "y">>
DOT_PY  == <<".", "p", "y">>
DOT_TXT == <<".", "t", "x", "t">>
DOT_RST == <<".", "r", "s", "t">>
FIXT    == <<"_", "f">>

\* configurations: the also-scan flag, the test-name pattern, the include and
\* exclude pattern lists, the auxiliary extensions and the fixture suffix
TestMatches == { <<"t">>, <<"t", "a">> }
IncludePatterns == { <<"a">>, <<"t">> }
ExcludePatterns == { <<"b">>, <<"x">> }
Extensions == { None, <<DOT_TXT>>, <<DOT_TXT, DOT_RST>> }
FixtureSuffixes == { None, FIXT }

Confs ==
    [ doctest_tests : BOOLEAN,
      testMatch     : TestMatches,
      include       : SUBSET IncludePatterns,
      exclude       : SUBSET ExcludePatterns,
      extension     : Extensions,
      fixtures      : FixtureSuffixes ]

\* module names the host asks about
ModuleNames ==
    { INIT_PY, <<"a">>, <<"a", "b">>, <<"t">>, <<"b">>, <<"e">>, <<"z">>,
      <<"t", "a">>, <<"k", ".", "a">> }

\* file paths the host asks about
FilePaths ==
    { <<"d", "/", "a", ".", "t", "x", "t">>,
      <<"e", "/", "b", ".", "t", "x", "t">>,
      <<"d", "/", "c", ".", "t", "x", "t">>,
      <<"e", "/", "a", ".", "r", "s", "t">>,
      <<"d", "/", "a", ".", "p", "y">>,
      <<"d", "/", "b", ".", "p", "y">>,
      <<"d", "/", "n">> }

-----------------------------------------------------------------------------
(* Eligibility *)

\* matches with the include patterns overriding the exclude patterns
matches_include_wins(c, name) ==
    IF name = INIT_PY THEN FALSE
    ELSE \/ /\ c.include # {}
            /\ { inc \in c.include : search(inc, name) } # {}
         \/ /\ c.doctest_tests \/ ~ search(c.testMatch, name)
            /\ \/ c.exclude = {}
               \/ { exc \in c.exclude : search(exc, name) } = {}

\* Doctest.matches(name), as its truth value
matches(c, name) ==
    IF name = INIT_PY THEN FALSE
    ELSE /\ \/ c.doctest_tests
            \/ ~ search(c.testMatch, name)
            \/ /\ c.include # {}
               /\ { inc \in c.include : search(inc, name) } # {}
         /\ \/ c.exclude = {}
            \/ { exc \in c.exclude : search(exc, name) } = {}

\* wantFile with the exclude patterns applied to '.py' files as well
wantFile_exclude_py(c, file) ==
    /\ \/ endswith(file, DOT_PY)
       \/ c.extension # None /\ anyp_endswith(file, c.extension)
    /\ \/ c.exclude = {}
       \/ { exc \in c.exclude : search(exc, file) } = {}

\* Doctest.wantFile(file), as its truth value (True, or None)
wantFile(c, file) ==
    IF endswith(file, DOT_PY) THEN TRUE
    ELSE IF /\ c.extension # None
            /\ anyp_endswith(file, c.extension)
            /\ \/ c.exclude = {}
               \/ { exc \in c.exclude : search(exc, file) } = {}
         THEN TRUE
         ELSE FALSE

-----------------------------------------------------------------------------
(* The modules, entities and files of the modelled world *)

A   == <<"a">>
AB  == <<"a", "b">>
T   == <<"t">>
B   == <<"b">>
E   == <<"e">>
Z   == <<"z">>
KA  == <<"k", ".", "a">>
ABC == <<"a", "b", "c">>

F_A  == <<"d", "/", "a", ".", "p", "y">>
F_AB == <<"d", "/", "a", "b", ".", "p", "y">>
F_T  == <<"d", "/", "t", ".", "p", "y">>
F_B  == <<"d", "/", "b", ".", "p", "y">>
F_E  == <<"d", "/", "e", ".", "p", "y">>
F_Z  == <<"d", "/", "z", ".", "p", "y">>
F_KA == <<"k", "/", "a", ".", "p", "y">>

\* a DocTest (example block): logical name, filename, line, number of examples
DocTest(name, filename, lineno, examples) ==
    [name |-> name, filename |-> filename, lineno |-> lineno, examples |-> examples]

\* the modules the host hands to loadTestsFromModule.  file is __file__ (a
\* compiled file for module a), test_attr is module.__test__, tests is what
\* DocTestFinder.find(module) finds there (in no particular order)
Modules ==
    { [name |-> A, file |-> F_A \o <<"c">>, test_attr |-> "unset",
       tests |-> { DocTest(A, F_A, 0, 0),
                   DocTest(A \o <<".", "C", ".", "p">>, None, 3, 1),
                   DocTest(A \o <<".">> \o ABC, F_A, 7, 2) }],
      [name |-> AB, file |-> F_AB, test_attr |-> "unset",
       tests |-> { DocTest(AB \o <<".">> \o ABC, F_AB, 1, 1) }],
      [name |-> T, file |-> F_T, test_attr |-> "unset",
       tests |-> { DocTest(T \o <<".", "f">>, F_T, 1, 1),
                   DocTest(T \o <<".", "g">>, F_T, 5, 1),
                   DocTest(T, F_T, 0, 1) }],
      [name |-> B, file |-> F_B, test_attr |-> "False",
       tests |-> { DocTest(B, F_B, 0, 1) }],
      [name |-> E, file |-> F_E, test_attr |-> "unset",
       tests |-> {}],
      [name |-> Z, file |-> F_Z, test_attr |-> "unset",
       tests |-> { DocTest(Z, F_Z, 0, 0), DocTest(Z \o <<".", "f">>, F_Z, 2, 0) }],
      [name |-> KA, file |-> F_KA, test_attr |-> "unset",
       tests |-> { DocTest(KA \o <<".", "C", ".", "p">>, F_KA, 4, 1),
                   DocTest(KA \o <<".">> \o ABC, F_KA, 9, 1) }] }

\* the entities the host hands to makeTest, one at a time: obj is the dotted
\* name under which the object lives (its identity here), name its __name__,
\* tests what DocTestFinder.find(obj, module, name) returns, in that order
Entities ==
    { [obj |-> A \o <<".">> \o ABC, name |-> ABC,
       tests |-> << DocTest(ABC, F_A, 7, 2) >>],
      [obj |-> AB \o <<".">> \o ABC, name |-> ABC,
       tests |-> << DocTest(ABC, F_AB, 1, 1) >>],
      [obj |-> KA \o <<".">> \o ABC, name |-> ABC,
       tests |-> << DocTest(ABC, F_KA, 9, 1) >>],
      [obj |-> A \o <<".", "C">>, name |-> <<"C">>,
       tests |-> << DocTest(<<"C">>, F_A, 2, 0),
                    DocTest(<<"C", ".", "p">>, F_A, 3, 1) >>],
      [obj |-> Z \o <<".", "f">>, name |-> <<"f">>,
       tests |-> << DocTest(<<"f">>, F_Z, 2, 0) >>],
      [obj |-> T \o <<".", "f">>, name |-> <<"f">>,
       tests |-> << DocTest(<<"f">>, None, 1, 1) >>],
      [obj |-> E \o <<".", "g">>, name |-> <<"g">>,
       tests |-> << >>] }

\* the objects of the global namespace, by dotted name: kind, and the address
\* nose.util.test_address gives for it
Objects ==
    { [name |-> A, kind |-> "module", addr |-> <<F_A, A, None>>],
      [name |-> A \o <<".", "C">>, kind |-> "class", addr |-> <<F_A, A, <<"C">>>>],
      [name |-> A \o <<".", "C", ".", "p">>, kind |-> "property", addr |-> Raise("TypeError")],
      [name |-> A \o <<".">> \o ABC, kind |-> "function", addr |-> <<F_A, A, ABC>>],
      [name |-> AB, kind |-> "module", addr |-> <<F_AB, AB, None>>],
      [name |-> AB \o <<".">> \o ABC, kind |-> "function", addr |-> <<F_AB, AB, ABC>>],
      [name |-> T, kind |-> "module", addr |-> <<F_T, T, None>>],
      [name |-> T \o <<".", "f">>, kind |-> "function", addr |-> <<F_T, T, <<"f">>>>],
      [name |-> KA, kind |-> "module", addr |-> <<F_KA, KA, None>>],
      [name |-> KA \o <<".", "C">>, kind |-> "class", addr |-> <<F_KA, KA, <<"C">>>>],
      [name |-> KA \o <<".", "C", ".", "p">>, kind |-> "property", addr |-> Raise("TypeError")],
      [name |-> KA \o <<".">> \o ABC, kind |-> "function", addr |-> <<F_KA, KA, ABC>>] }

Object(name) == CHOOSE o \in Objects : o.name = name

\* the number of examples DocTestParser.get_doctest finds in a file's text
FileExamples(path) ==
    CASE path = <<"d", "/", "a", ".", "t", "x", "t">> -> 1
      [] path = <<"e", "/", "b", ".", "t", "x", "t">> -> 1
      [] path = <<"d", "/", "c", ".", "t", "x", "t">> -> 0
      [] path = <<"e", "/", "a", ".", "r", "s", "t">> -> 2
      [] OTHER -> 0

\* the importable fixture modules, each <<directory, module name>>; an
\* imported module is that pair
FixtureModules == { << <<"d">>, <<"a", "_", "f">> >> }

\* the package path nose.util.getpackage gives for a source file
getpackage(filename) ==
    CASE filename = F_A  -> A
      [] filename = F_AB -> AB
      [] filename = F_T  -> T
      [] filename = F_B  -> B
      [] filename = F_E  -> E
      [] filename = F_Z  -> Z
      [] filename = F_KA -> KA
      [] OTHER -> None

\* nose.util.src: the source file of a compiled file
src(filename) ==
    IF endswith(filename, DOT_PY \o <<"c">>) \/ endswith(filename, DOT_PY \o <<"o">>)
    THEN SubSeq(filename, 1, Len(filename) - 1)
    ELSE filename

-----------------------------------------------------------------------------
(* Ordering of DocTests: by name, as characters compare in Python *)

Chars ==
    << ".", "/", "C", "_", "a", "b", "c", "d", "e", "f", "g", "i", "k", "n",
       "p", "r", "s", "t", "x", "y", "z" >>

ord(ch) == CHOOSE i \in 1..Len(Chars) : Chars[i] = ch

\* s < t for strings
RECURSIVE StrLess(_, _)
StrLess(s, t) ==
    IF Len(t) = 0 THEN FALSE
    ELSE IF Len(s) = 0 THEN TRUE
    ELSE IF s[1] # t[1] THEN ord(s[1]) < ord(t[1])
    ELSE StrLess(Tail(s), Tail(t))

\* the orders in which a finder may hand back a set of DocTests
Orders(S) ==
    { p \in [1..Cardinality(S) -> S] : \A i, j \in 1..Cardinality(S) : p[i] = p[j] => i = j }

Range(f) == { f[i] : i \in DOMAIN f }

\* the sort left out: the tests stay as the finder returned them
sort_omitted(tests) == tests

\* tests.sort(): DocTest.__cmp__ compares the names first, and the names of
\* one find() are distinct
sort(tests) ==
    IF tests = <<>> THEN <<>>
    ELSE CHOOSE p \in Orders(Range(tests)) :
            \A i \in 1..(Len(p) - 1) : StrLess(p[i].name, p[i + 1].name)

-----------------------------------------------------------------------------
(* Cases and suites *)

\* DocTestCase(test, obj=obj): the DocTest and the entity given as a hint
DocTestCase(test, obj) ==
    [kind |-> "DocTestCase", test |-> test, obj |-> obj]

\* DocFileCase(test)
DocFileCase(test) ==
    [kind |-> "DocFileCase", test |-> test, obj |-> None]

\* DoctestSuite.__init__, and a call of the loader's suiteClass: the
\* suite keeps the context and the can_split it is given
Suite(cls, tests, context, can_split) ==
    [kind |-> "suite", cls |-> cls, tests |-> tests, context |-> context,
     can_split |-> can_split]

\* ContextSuite(tests=(case,), context=fixture_context): no can_split is
\* passed, so the flag is whatever nose.suite.ContextSuite defaults to
ContextSuite(tests, context) ==
    [kind |-> "suite", cls |-> "ContextSuite", tests |-> tests, context |-> context,
     can_split |-> "default"]

\* the sentinel: yield False
NoTests == [kind |-> "False"]

-----------------------------------------------------------------------------
(* Discovery *)

\* the loop of loadTestsFromModule over the sorted tests
RECURSIVE module_cases(_, _)
module_cases(tests, module_file) ==
    IF tests = <<>> THEN <<>>
    ELSE LET test == Head(tests)
         IN IF test.examples = 0
            THEN module_cases(Tail(tests), module_file)
            ELSE <<DocTestCase(IF test.filename = None
                               THEN [test EXCEPT !.filename = module_file]
                               ELSE test,
                               None)>>
                 \o module_cases(Tail(tests), module_file)

\* Doctest.loadTestsFromModule(module): what it yields, found being what
\* self.finder.find(module) returned
loadTestsFromModule(c, sc, module, found) ==
    IF ~ matches(c, module.name) THEN <<>>
    ELSE IF module.test_attr = "False" THEN <<>>
    ELSE IF found = <<>> THEN <<>>
    ELSE LET tests == sort(found)
             module_file == src(module.file)
             cases == module_cases(tests, module_file)
         IN IF cases # <<>>
            THEN <<Suite(sc, cases, module.name, "False")>>
            ELSE <<>>

\* __import__(fixt_mod, ...): the module found along the search path, None
\* when there is none (ImportError)
import(path, fixt_mod) ==
    IF \E i \in 1..Len(path) : <<path[i], fixt_mod>> \in FixtureModules
    THEN LET i == CHOOSE k \in 1..Len(path) :
                      /\ <<path[k], fixt_mod>> \in FixtureModules
                      /\ \A j \in 1..(k - 1) : <<path[j], fixt_mod>> \notin FixtureModules
         IN <<path[i], fixt_mod>>
    ELSE None

\* loadTestsFromFile importing the fixture before the file's directory is on
\* the search path
loadTestsFromFile_import_first(c, path, filename) ==
    IF c.extension # None /\ anyp_endswith(filename, c.extension)
    THEN LET name == basename(filename)
             base == splitext(name)[1]
             path1 == IF c.fixtures # None THEN Append(path, dirname(filename)) ELSE path
             fixt_mod == IF c.fixtures # None THEN base \o c.fixtures ELSE None
             fixture_context == IF c.fixtures # None THEN import(path, fixt_mod) ELSE None
             test == DocTest(name, filename, 0, FileExamples(filename))
         IN [yielded |-> IF test.examples # 0
                         THEN IF fixture_context # None
                              THEN <<ContextSuite(<<DocFileCase(test)>>, fixture_context)>>
                              ELSE <<DocFileCase(test)>>
                         ELSE <<NoTests>>,
             path |-> path1,
             imported |-> fixt_mod]
    ELSE [yielded |-> <<>>, path |-> path, imported |-> None]

\* loadTestsFromFile yielding nothing for a file without examples
loadTestsFromFile_no_sentinel(c, path, filename) ==
    IF c.extension # None /\ anyp_endswith(filename, c.extension)
    THEN LET name == basename(filename)
             base == splitext(name)[1]
             path1 == IF c.fixtures # None THEN Append(path, dirname(filename)) ELSE path
             fixt_mod == IF c.fixtures # None THEN base \o c.fixtures ELSE None
             fixture_context == IF c.fixtures # None THEN import(path1, fixt_mod) ELSE None
             test == DocTest(name, filename, 0, FileExamples(filename))
         IN [yielded |-> IF test.examples # 0
                         THEN IF fixture_context # None
                              THEN <<ContextSuite(<<DocFileCase(test)>>, fixture_context)>>
                              ELSE <<DocFileCase(test)>>
                         ELSE <<>>,
             path |-> path1,
             imported |-> fixt_mod]
    ELSE [yielded |-> <<>>, path |-> path, imported |-> None]

\* loadTestsFromFile putting the file's directory at the front of the search
\* path (sys.path.insert(0, dirname))
loadTestsFromFile_insert_front(c, path, filename) ==
    IF c.extension # None /\ anyp_endswith(filename, c.extension)
    THEN LET name == basename(filename)
             base == splitext(name)[1]
             path1 == IF c.fixtures # None THEN <<dirname(filename)>> \o path ELSE path
             fixt_mod == IF c.fixtures # None THEN base \o c.fixtures ELSE None
             fixture_context == IF c.fixtures # None THEN import(path1, fixt_mod) ELSE None
             test == DocTest(name, filename, 0, FileExamples(filename))
         IN [yielded |-> IF test.examples # 0
                         THEN IF fixture_context # None
                              THEN <<ContextSuite(<<DocFileCase(test)>>, fixture_context)>>
                              ELSE <<DocFileCase(test)>>
                         ELSE <<NoTests>>,
             path |-> path1,
             imported |-> fixt_mod]
    ELSE [yielded |-> <<>>, path |-> path, imported |-> None]

\* Doctest.loadTestsFromFile(filename): what it yields, the search path it
\* leaves, and the fixture module it tried to import (None when it tried none)
loadTestsFromFile(c, path, filename) ==
    IF c.extension # None /\ anyp_endswith(filename, c.extension)
    THEN LET name == basename(filename)
             base == splitext(name)[1]
             path1 == IF c.fixtures # None THEN Append(path, dirname(filename)) ELSE path
             fixt_mod == IF c.fixtures # None THEN base \o c.fixtures ELSE None
             fixture_context == IF c.fixtures # None THEN import(path1, fixt_mod) ELSE None
             test == DocTest(name, filename, 0, FileExamples(filename))
         IN [yielded |-> IF test.examples # 0
                         THEN IF fixture_context # None
                              THEN <<ContextSuite(<<DocFileCase(test)>>, fixture_context)>>
                              ELSE <<DocFileCase(test)>>
                         ELSE <<NoTests>>,
             path |-> path1,
             imported |-> fixt_mod]
    ELSE [yielded |-> <<>>, path |-> path, imported |-> None]

\* makeTest without the test for zero examples
RECURSIVE makeTest_cases_unchecked(_, _)
makeTest_cases_unchecked(doctests, obj) ==
    IF doctests = <<>> THEN <<>>
    ELSE <<DocTestCase(Head(doctests), obj)>>
         \o makeTest_cases_unchecked(Tail(doctests), obj)

\* Doctest.makeTest(obj, parent): the cases it yields
RECURSIVE makeTest_cases(_, _)
makeTest_cases(doctests, obj) ==
    IF doctests = <<>> THEN <<>>
    ELSE IF Head(doctests).examples = 0
         THEN makeTest_cases(Tail(doctests), obj)
         ELSE <<DocTestCase(Head(doctests), obj)>> \o makeTest_cases(Tail(doctests), obj)

makeTest(entity) ==
    IF entity.tests # <<>> THEN makeTest_cases(entity.tests, entity.obj) ELSE <<>>

-----------------------------------------------------------------------------
(* Identity and address of a case *)

\* nose.util.resolve_name(name): the object of that dotted name
resolvable(name) == \E o \in Objects : o.name = name

\* nose.util.isproperty(obj)
isproperty(obj) == Object(obj).kind = "property"

\* nose.util.test_address(obj)
test_address(obj) == Object(obj).addr

\* address giving a property's own name as the call path
address_leaf_only(case) ==
    IF case.kind = "DocFileCase"
    THEN [result |-> <<case.test.filename, None, None>>, resolved |-> <<>>]
    ELSE IF case.obj # None
    THEN [result |-> test_address(case.obj), resolved |-> <<>>]
    ELSE IF ~ resolvable(case.test.name)
    THEN [result |-> Raise("ImportError"), resolved |-> <<case.test.name>>]
    ELSE LET obj == case.test.name
         IN IF isproperty(obj)
            THEN LET parts == split(case.test.name)
                     class_name == join(SubSeq(parts, 1, Len(parts) - 1))
                     base_addr == test_address(class_name)
                 IN [result |-> <<base_addr[1], base_addr[2], parts[Len(parts)]>>,
                     resolved |-> <<case.test.name, class_name>>]
            ELSE [result |-> test_address(obj), resolved |-> <<case.test.name>>]

\* DocTestCase.address() and DocFileCase.address(): the address, and the
\* names handed to resolve_name on the way
address(case) ==
    IF case.kind = "DocFileCase"
    THEN [result |-> <<case.test.filename, None, None>>, resolved |-> <<>>]
    ELSE IF case.obj # None
    THEN [result |-> test_address(case.obj), resolved |-> <<>>]
    ELSE IF ~ resolvable(case.test.name)
    THEN [result |-> Raise("ImportError"), resolved |-> <<case.test.name>>]
    ELSE LET obj == case.test.name
         IN IF isproperty(obj)
            THEN LET parts == split(case.test.name)
                     class_name == join(SubSeq(parts, 1, Len(parts) - 1))
                     base_addr == test_address(class_name)
                 IN [result |-> <<base_addr[1], base_addr[2],
                                  join(<<base_addr[3], parts[Len(parts)]>>)>>,
                     resolved |-> <<case.test.name, class_name>>]
            ELSE [result |-> test_address(obj), resolved |-> <<case.test.name>>]

\* DocTestCase.id()
id(case) ==
    LET name == case.test.name
        filename == case.test.filename
    IN IF filename # None
       THEN LET pk == getpackage(filename)
            IN IF ~ startswith(name, pk) THEN pk \o <<".">> \o name ELSE name
       ELSE name

-----------------------------------------------------------------------------
(* The patched debugger hook *)

Pdbs == {1, 2}

\* NoseOutputRedirectingPdb.__init__
pdb_init == [debugger_used |-> FALSE, orp_set_trace |-> 0, orp_set_continue |-> 0]

\* NoseOutputRedirectingPdb.set_trace
set_trace(p) ==
    [p EXCEPT !.debugger_used = TRUE, !.orp_set_trace = @ + 1]

\* set_continue calling the underlying set_continue unconditionally
set_continue_always(p) == [p EXCEPT !.orp_set_continue = @ + 1]

\* NoseOutputRedirectingPdb.set_continue
set_continue(p) ==
    IF p.debugger_used THEN [p EXCEPT !.orp_set_continue = @ + 1] ELSE p

-----------------------------------------------------------------------------
(* Bounds *)

MaxPath == 3
MaxCalls == 4

\* the configurations of the discovery runs
DiscoveryConfs ==
    { c \in Confs : /\ c.include \subseteq { <<"t">> }
                    /\ c.exclude \subseteq { <<"b">> } }

W == <<"w">>

-----------------------------------------------------------------------------
(* The host framework drives the plugin *)

NoCall == [op |-> "none"]
NoId == [case |-> None, id |-> None]

InitCommon ==
    /\ suiteClass = "DoctestSuite"
    /\ sys_path = <<W>>
    /\ last = NoCall
    /\ last_id = NoId
    /\ pdb = [i \in Pdbs |-> pdb_init]
    /\ sys_settrace = "coverage"
    /\ calls = <<>>

Init ==
    /\ conf \in DiscoveryConfs
    /\ InitCommon

\* Doctest.prepareTestLoader(loader)
PrepareTestLoader ==
    /\ suiteClass' = "loader.suiteClass"
    /\ UNCHANGED <<conf, sys_path, last, last_id, pdb, sys_settrace, calls>>

Matches(name) ==
    /\ last' = [op |-> "matches", arg |-> name, result |-> matches(conf, name)]
    /\ UNCHANGED <<conf, suiteClass, sys_path, last_id, pdb, sys_settrace, calls>>

WantFile(file) ==
    /\ last' = [op |-> "wantFile", arg |-> file, result |-> wantFile(conf, file)]
    /\ UNCHANGED <<conf, suiteClass, sys_path, last_id, pdb, sys_settrace, calls>>

LoadTestsFromModule(module) ==
    /\ \E found \in Orders(module.tests) :
          last' = [op |-> "loadTestsFromModule", arg |-> module.name,
                   yielded |-> loadTestsFromModule(conf, suiteClass, module, found)]
    /\ UNCHANGED <<conf, suiteClass, sys_path, last_id, pdb, sys_settrace, calls>>

LoadTestsFromFile(filename) ==
    LET r == loadTestsFromFile(conf, sys_path, filename)
    IN /\ Len(r.path) <= MaxPath
       /\ sys_path' = r.path
       /\ last' = [op |-> "loadTestsFromFile", arg |-> filename,
                   yielded |-> r.yielded, imported |-> r.imported,
                   path_before |-> sys_path]
       /\ UNCHANGED <<conf, suiteClass, last_id, pdb, sys_settrace, calls>>

MakeTest(entity) ==
    /\ last' = [op |-> "makeTest", arg |-> entity.obj, yielded |-> makeTest(entity)]
    /\ UNCHANGED <<conf, suiteClass, sys_path, last_id, pdb, sys_settrace, calls>>

DiscoveryOps == {"loadTestsFromModule", "loadTestsFromFile", "makeTest"}

\* the cases of a yielded sequence: a suite's tests, or the bare case
CasesOf(yielded) ==
    UNION { IF yielded[i].kind = "suite" THEN Range(yielded[i].tests)
            ELSE IF yielded[i].kind = "False" THEN {}
            ELSE {yielded[i]} : i \in 1..Len(yielded) }

\* the cases the host holds after the last call
Held ==
    IF last.op \in DiscoveryOps THEN CasesOf(last.yielded)
    ELSE IF last.op \in {"address", "id"} THEN {last.arg}
    ELSE {}

Address ==
    \E case \in Held :
        /\ last' = [op |-> "address", arg |-> case,
                    result |-> address(case).result,
                    resolved |-> address(case).resolved]
        /\ UNCHANGED <<conf, suiteClass, sys_path, last_id, pdb, sys_settrace, calls>>

Id ==
    \E case \in Held :
        /\ case.kind = "DocTestCase"
        /\ last' = [op |-> "id", arg |-> case, result |-> id(case), before |-> last_id]
        /\ last_id' = [case |-> case, id |-> id(case)]
        /\ UNCHANGED <<conf, suiteClass, sys_path, pdb, sys_settrace, calls>>

\* discovery: the three paths, under each configuration
Next ==
    \/ PrepareTestLoader
    \/ \E module \in Modules : LoadTestsFromModule(module)
    \/ \E file \in FilePaths : LoadTestsFromFile(file)
    \/ \E entity \in Entities : MakeTest(entity)

Spec == Init /\ [][Next]_vars

\* identity and address of the cases discovery hands out
InitAddress ==
    /\ conf \in { c \in DiscoveryConfs : /\ c.doctest_tests
                                         /\ c.testMatch = <<"t">>
                                         /\ c.include = {}
                                         /\ c.extension # None }
    /\ InitCommon

NextAddress ==
    \/ \E module \in Modules : LoadTestsFromModule(module)
    \/ \E file \in FilePaths : LoadTestsFromFile(file)
    \/ \E entity \in Entities : MakeTest(entity)
    \/ Address
    \/ Id

SpecAddress == InitAddress /\ [][NextAddress]_vars

\* the eligibility checks alone, over every configuration
InitEligibility ==
    /\ conf \in Confs
    /\ InitCommon

NextEligibility ==
    \/ \E name \in ModuleNames : Matches(name)
    \/ \E file \in FilePaths : WantFile(file)

SpecEligibility == InitEligibility /\ [][NextEligibility]_vars

\* the debugger hook alone: doctest code calls set_trace and set_continue
SetTrace(i) ==
    /\ Len(calls) < MaxCalls
    /\ pdb' = [pdb EXCEPT ![i] = set_trace(pdb[i])]
    /\ sys_settrace' = "pdb"
    /\ calls' = Append(calls, <<"set_trace", i>>)
    /\ UNCHANGED <<conf, suiteClass, sys_path, last, last_id>>

SetContinue(i) ==
    /\ Len(calls) < MaxCalls
    /\ pdb' = [pdb EXCEPT ![i] = set_continue(pdb[i])]
    /\ sys_settrace' = IF set_continue(pdb[i]) # pdb[i] THEN "none" ELSE sys_settrace
    /\ calls' = Append(calls, <<"set_continue", i>>)
    /\ UNCHANGED <<conf, suiteClass, sys_path, last, last_id>>

InitPdb ==
    /\ conf = [doctest_tests |-> FALSE, testMatch |-> <<"t">>, include |-> {},
               exclude |-> {}, extension |-> None, fixtures |-> None]
    /\ InitCommon

NextPdb ==
    \/ \E i \in Pdbs : SetTrace(i)
    \/ \E i \in Pdbs : SetContinue(i)

SpecPdb == InitPdb /\ [][NextPdb]_vars

-----------------------------------------------------------------------------
(* Properties *)

ModuleNamed(name) == CHOOSE m \in Modules : m.name = name

\* The eligibility rule for a module name, as the specification words it
Wanted(c, name) ==
    /\ name # INIT_PY
    /\ \/ c.doctest_tests
       \/ ~ search(c.testMatch, name)
       \/ \E inc \in c.include : search(inc, name)
    /\ \A exc \in c.exclude : ~ search(exc, name)

\* C1: matches(name) is truthy exactly when the name is not "__init__.py",
\* and the also-scan flag is set or the name does not match the test-name
\* pattern or it matches an include pattern, and it matches no exclude
\* pattern; an excluded name is never wanted and "__init__.py" never is.
C1_MatchesContract ==
    last.op = "matches" =>
        /\ last.result <=> Wanted(conf, last.arg)
        /\ (\E exc \in conf.exclude : search(exc, last.arg)) => ~ last.result
        /\ last.arg = INIT_PY => ~ last.result

\* a test-like name, wanted through an include pattern although exclude
\* patterns are configured and the also-scan flag is off
C1_Witness ==
    /\ last.op = "matches"
    /\ last.result
    /\ ~ conf.doctest_tests
    /\ search(conf.testMatch, last.arg)
    /\ conf.exclude # {}

\* C2: wantFile(path) accepts every path ending in '.py', excluded or not;
\* any other path exactly when auxiliary extensions are configured, the
\* path ends with one of them and it matches no exclude pattern.
C2_WantFileContract ==
    last.op = "wantFile" =>
        IF endswith(last.arg, DOT_PY)
        THEN last.result
        ELSE last.result <=>
                /\ Len(conf.extension) > 0
                /\ \E i \in 1..Len(conf.extension) : endswith(last.arg, conf.extension[i])
                /\ \A exc \in conf.exclude : ~ search(exc, last.arg)

\* a '.py' path that an exclude pattern matches, accepted all the same
C2_Witness ==
    /\ last.op = "wantFile"
    /\ endswith(last.arg, DOT_PY)
    /\ \E exc \in conf.exclude : search(exc, last.arg)
    /\ last.result

\* the blocks of a module that have examples
NonEmpty(module) == { t \in module.tests : t.examples > 0 }

C5_NoEmptyCase ==
    last.op \in DiscoveryOps =>
        \A case \in CasesOf(last.yielded) : case.test.examples > 0

\* makeTest on a class whose own block is empty and whose property's is not
C5_Witness ==
    /\ last.op = "makeTest"
    /\ \E entity \in Entities :
          /\ entity.obj = last.arg
          /\ \E i \in 1..Len(entity.tests) : entity.tests[i].examples = 0
    /\ Len(last.yielded) = 1

\* the base name of a file without its extension, file by file
Stem(path) ==
    CASE path = <<"d", "/", "a", ".", "t", "x", "t">> -> <<"a">>
      [] path = <<"e", "/", "b", ".", "t", "x", "t">> -> <<"b">>
      [] path = <<"d", "/", "c", ".", "t", "x", "t">> -> <<"c">>
      [] path = <<"e", "/", "a", ".", "r", "s", "t">> -> <<"a">>
      [] OTHER -> None

\* the directory of a file, file by file
Dir(path) == <<path[1]>>

\* the path ends with one of the configured auxiliary extensions
Auxiliary(c, path) ==
    \E i \in 1..Len(c.extension) : endswith(path, c.extension[i])

\* the fixture module of a file can be imported: it lies in a directory of
\* the search path as it was, or in the file's own directory
Importable(c, before, path) ==
    \E dir \in Range(before) \cup {Dir(path)} :
        <<dir, Stem(path) \o c.fixtures>> \in FixtureModules

C7_FixtureResolution ==
    (last.op = "loadTestsFromFile" /\ Auxiliary(conf, last.arg)) =>
        LET y == last.yielded
            has_examples == FileExamples(last.arg) > 0
        IN /\ Len(y) = 1
           /\ y[1].kind # "raise"
           /\ IF conf.fixtures # None
              THEN /\ last.imported = Stem(last.arg) \o conf.fixtures
                   /\ IF Importable(conf, last.path_before, last.arg)
                      THEN has_examples =>
                              /\ y[1].kind = "suite"
                              /\ y[1].context[2] = Stem(last.arg) \o conf.fixtures
                              /\ y[1].context \in FixtureModules
                      ELSE has_examples => y[1].kind = "DocFileCase"
              ELSE /\ last.imported = None
                   /\ has_examples => y[1].kind = "DocFileCase"

\* the fixture module is not to be found, and the file's Case is produced
C7_Witness ==
    /\ last.op = "loadTestsFromFile"
    /\ conf.fixtures # None
    /\ last.imported # None
    /\ ~ Importable(conf, last.path_before, last.arg)
    /\ Len(last.yielded) = 1
    /\ last.yielded[1].kind = "DocFileCase"

\* the class that owns a property, and the property's own name
Owner(name) ==
    CASE name = A \o <<".", "C", ".", "p">> -> <<A \o <<".", "C">>, <<"p">>>>
      [] name = KA \o <<".", "C", ".", "p">> -> <<KA \o <<".", "C">>, <<"p">>>>

\* C8: for a Case without an explicit entity whose block name resolves to a
\* property, address() gives the filename and module name of the owning
\* class's address and the class's call path, '.', the property's name; for a
\* Case with an explicit entity it gives that entity's address and resolves
\* no name.
C8_Address ==
    (last.op = "address" /\ last.arg.kind = "DocTestCase") =>
        LET case == last.arg
        IN IF case.obj # None
           THEN /\ last.result = Object(case.obj).addr
                /\ last.resolved = <<>>
           ELSE (resolvable(case.test.name) /\ Object(case.test.name).kind = "property") =>
                   LET class == Object(Owner(case.test.name)[1])
                   IN /\ last.result[1] = class.addr[1]
                      /\ last.result[2] = class.addr[2]
                      /\ last.result[3] = class.addr[3] \o <<".">> \o Owner(case.test.name)[2]

\* the address of a property's Case in a module of a package
C8_Witness ==
    /\ last.op = "address"
    /\ last.arg.kind = "DocTestCase"
    /\ last.arg.obj = None
    /\ last.arg.test.name = KA \o <<".", "C", ".", "p">>
    /\ last.result = <<F_KA, KA, <<"C", ".", "p">>>>

\* C9 as claimed: id() is the block's name when the block has no filename;
\* with a filename, the name if it starts with the file's package path, else
\* the package path, '.', the name; and two blocks of the same name in files
\* of different packages never get the same identity.
C9_AsClaimed ==
    last.op = "id" =>
        LET test == last.arg.test
        IN /\ last.result =
                 IF test.filename = None THEN test.name
                 ELSE IF startswith(test.name, getpackage(test.filename)) THEN test.name
                 ELSE getpackage(test.filename) \o <<".">> \o test.name
           /\ ( /\ last.before.case # None
                /\ last.before.case.test.name = test.name
                /\ last.before.case.test.filename # None
                /\ test.filename # None
                /\ getpackage(last.before.case.test.filename) # getpackage(test.filename) )
              => last.before.id # last.result

\* the number of set_continue calls on instance i that follow a set_trace on i
ContinuesAfterTrace(i) ==
    Cardinality({ k \in 1..Len(calls) :
                    /\ calls[k] = <<"set_continue", i>>
                    /\ \E j \in 1..(k - 1) : calls[j] = <<"set_trace", i>> })

\* C10: over every sequence of set_trace and set_continue calls, an instance
\* performs the underlying continue only for a set_continue that follows a
\* set_trace on that instance; a set_continue before any set_trace has no
\* effect; and once set_trace was called the debugger-used flag stays true.
C10_Inv ==
    \A i \in Pdbs :
        /\ pdb[i].orp_set_continue = ContinuesAfterTrace(i)
        /\ pdb[i].debugger_used <=> \E k \in 1..Len(calls) : calls[k] = <<"set_trace", i>>
        /\ (\A k \in 1..Len(calls) : calls[k][1] # "set_trace") => sys_settrace = "coverage"

C10_DebuggerHook ==
    /\ []C10_Inv
    /\ [][\A i \in Pdbs : pdb[i].debugger_used => pdb'[i].debugger_used]_vars

\* a set_continue without effect, then set_trace, then a set_continue that
\* is performed
C10_Witness ==
    /\ calls = << <<"set_continue", 1>>, <<"set_trace", 1>>, <<"set_continue", 1>> >>
    /\ pdb[1].orp_set_continue = 1
    /\ pdb[2] = pdb_init

\* p is a prefix of q
IsPrefix(p, q) == Len(p) <= Len(q) /\ SubSeq(q, 1, Len(p)) = p

\* the calls that leave the search path alone whatever the configuration
PathNeutralOps == {"loadTestsFromModule", "makeTest", "address", "id"}

\* the file's fixture module lies in the file's own directory
SiblingFixture(c, path) == <<Dir(path), Stem(path) \o c.fixtures>> \in FixtureModules

\* C11 as claimed: every file extraction with a fixture suffix configured
\* appends the file's directory to the end of the search path, before the
\* import and whether or not it succeeds; no call removes or reorders an
\* entry; file extraction without a fixture suffix, module extraction and
\* address resolution leave the search path unchanged.
C11_AsClaimed ==
    [][ /\ IsPrefix(sys_path, sys_path')
        /\ last'.op = "loadTestsFromFile" =>
              IF conf.fixtures # None
              THEN sys_path' = Append(sys_path, Dir(last'.arg))
              ELSE sys_path' = sys_path
        /\ last'.op \in PathNeutralOps => sys_path' = sys_path ]_vars

\* one step of the engine, as C11 is amended
C11_Step ==
    /\ IsPrefix(sys_path, sys_path')
    /\ last'.op = "loadTestsFromFile" =>
          IF conf.fixtures # None /\ Auxiliary(conf, last'.arg)
          THEN /\ sys_path' = Append(sys_path, Dir(last'.arg))
               /\ last'.path_before = sys_path
               /\ (SiblingFixture(conf, last'.arg) /\ FileExamples(last'.arg) > 0) =>
                     /\ last'.yielded[1].kind = "suite"
                     /\ last'.yielded[1].context \in FixtureModules
          ELSE sys_path' = sys_path
    /\ last'.op \in PathNeutralOps => sys_path' = sys_path

\* C11, amended: every file extraction on a path that ends with a configured
\* auxiliary extension, with a fixture suffix configured, appends the file's
\* directory to the end of the search path before the fixture import is
\* attempted (a fixture module lying only in that directory is found),
\* whether or not the import succeeds; no call removes or reorders an entry,
\* so the search path before any sequence of calls is a prefix of the search
\* path after it; file extraction on any other path or without a fixture
\* suffix, module extraction, makeTest, address resolution and id() leave the
\* search path unchanged.
C11_SearchPath ==
    /\ [](IsPrefix(<<W>>, sys_path))
    /\ [][C11_Step]_vars

\* two file extractions have each appended their directory, the second after
\* an import that failed
C11_Witness ==
    /\ last.op = "loadTestsFromFile"
    /\ conf.fixtures # None
    /\ ~ Importable(conf, last.path_before, last.arg)
    /\ Len(last.path_before) = 2
    /\ sys_path = Append(last.path_before, Dir(last.arg))

====
